---- MODULE Spec2Model ----
(***************************************************************************)
(* Model of snap-l10n (yeager/snap-l10n): the snapd registry client, the   *)
(* translation inspector (src/src/snap_l10n/snapd.py) and the refresh      *)
(* cycle of the main window (src/src/snap_l10n/main.py).                   *)
(*                                                                         *)
(* Python strings are modelled as sequences of one-character strings, so   *)
(* that split, rstrip, lower, concatenation and code-point comparison are  *)
(* computed and not assumed.                                               *)
(***************************************************************************)
EXTENDS Integers, Sequences, FiniteSets, TLC

VARIABLES
    snap,             \* the package record handed to get_snap_l10n_info
    fs,               \* the filesystem found at the package's mount path
    info,             \* outcome of the last inspector call
    response,         \* what the daemon does with the last GET
    reply,            \* outcome of the last _snapd_get call
    openConns,        \* connections opened by _snapd_get and not closed
    requests,         \* GET /v2/snaps requests issued so far
    triggers,         \* refreshes triggered so far (startup included)
    idle,             \* _load_snaps callbacks queued with GLib.idle_add
    lastLoad,         \* how the last _load_snaps ended: "none", "ok", "error"
    world,            \* the packages' filesystems, by name, as self._snaps saw them
    _snaps,           \* SnapL10nWindow._snaps
    _current_filter,  \* SnapL10nWindow._current_filter
    _current_language,\* SnapL10nWindow._current_language
    _all_languages,   \* SnapL10nWindow._all_languages
    _heatmap_mode,    \* SnapL10nWindow._heatmap_mode
    _system_lang,     \* SnapL10nWindow._system_lang
    _stack,           \* visible child of SnapL10nWindow._stack
    _status_page,     \* title and description of SnapL10nWindow._status_page
    _listbox,         \* rows of SnapL10nWindow._listbox
    _heatmap_flow,    \* children of SnapL10nWindow._heatmap_flow
    _export_fmt,      \* SnapL10nWindow._export_fmt, "" before the first choice
    exported          \* the file the last export wrote

vars == <<snap, fs, info, response, reply, openConns, requests, triggers, idle,
          lastLoad, world, _snaps, _current_filter, _current_language, _all_languages,
          _heatmap_mode, _system_lang, _stack, _status_page, _listbox,
          _heatmap_flow, _export_fmt, exported>>

inspectVars == <<snap, fs, info>>
registryVars == <<response, reply, openConns>>
exportVars == <<_export_fmt, exported>>
windowVars == <<requests, triggers, idle, lastLoad, world, _snaps, _current_filter,
                _current_language, _all_languages, _heatmap_mode, _system_lang,
                _stack, _status_page, _listbox, _heatmap_flow, exportVars>>

(***************************************************************************)
(* Strings                                                                 *)
(***************************************************************************)
UpperCase == <<"A","B","C","D","E","F","G","H","I","J","K","L","M",
               "N","O","P","Q","R","S","T","U","V","W","X","Y","Z">>
LowerCase == <<"a","b","c","d","e","f","g","h","i","j","k","l","m",
               "n","o","p","q","r","s","t","u","v","w","x","y","z">>

IndexIn(c, seq) ==
    IF \E i \in 1..Len(seq) : seq[i] = c
    THEN CHOOSE i \in 1..Len(seq) : seq[i] = c
    ELSE 0

\* Code point of a character (ASCII)
Ord(c) ==
    IF IndexIn(c, UpperCase) > 0 THEN 64 + IndexIn(c, UpperCase)
    ELSE IF IndexIn(c, LowerCase) > 0 THEN 96 + IndexIn(c, LowerCase)
    ELSE CASE c = "-" -> 45
           [] c = "." -> 46
           [] c = "/" -> 47
           [] c = "8" -> 56
           [] c = "=" -> 61
           [] c = "@" -> 64
           [] c = "[" -> 91
           [] c = "]" -> 93
           [] c = "_" -> 95
           [] OTHER -> 0

\* str.lower on one character
LowerChar(c) ==
    IF IndexIn(c, UpperCase) > 0 THEN LowerCase[IndexIn(c, UpperCase)] ELSE c

\* str.lower
Lower(s) == [i \in 1..Len(s) |-> LowerChar(s[i])]

\* a < b on Python strings: lexicographic on code points
RECURSIVE StrLess(_, _)
StrLess(a, b) ==
    IF b = <<>> THEN FALSE
    ELSE IF a = <<>> THEN TRUE
    ELSE IF Ord(Head(a)) < Ord(Head(b)) THEN TRUE
    ELSE IF Ord(Head(a)) > Ord(Head(b)) THEN FALSE
    ELSE StrLess(Tail(a), Tail(b))

StrLeq(a, b) == a = b \/ StrLess(a, b)

\* c in s
Contains(s, c) == \E i \in 1..Len(s) : s[i] = c

\* s.split(sep) for a one-character separator: the list of the pieces
RECURSIVE SplitFrom(_, _, _)
SplitFrom(s, sep, piece) ==
    IF s = <<>> THEN <<piece>>
    ELSE IF Head(s) = sep THEN <<piece>> \o SplitFrom(Tail(s), sep, <<>>)
    ELSE SplitFrom(Tail(s), sep, Append(piece, Head(s)))

Split(s, sep) == SplitFrom(s, sep, <<>>)

\* s.rstrip(c) for a one-character argument
RECURSIVE RStrip(_, _)
RStrip(s, c) ==
    IF s # <<>> /\ s[Len(s)] = c THEN RStrip(SubSeq(s, 1, Len(s) - 1), c) ELSE s

\* sorted(set): the ascending list of the members of a set of strings
RECURSIVE Sorted(_)
Sorted(S) ==
    IF S = {} THEN <<>>
    ELSE LET m == CHOOSE x \in S : \A y \in S : StrLeq(x, y)
         IN <<m>> \o Sorted(S \ {m})

Range(seq) == {seq[i] : i \in 1..Len(seq)}

(***************************************************************************)
(* The package's filesystem as the probes see it                           *)
(*                                                                         *)
(* fs.mount    os.path.isdir(snap_mount)                                   *)
(* fs.locale   the three candidate locale directories, in the order of     *)
(*             locale_dirs; each is "missing" (isdir is False), "denied"   *)
(*             (isdir is True, os.listdir raises PermissionError) or       *)
(*             "dir", and lc[l] tells what the entry l holds:              *)
(*               "absent"   no entry l in the listing                      *)
(*               "nolc"     l exists, l/LC_MESSAGES is no directory        *)
(*               "empty"    l/LC_MESSAGES is a directory without entries   *)
(*               "denied"   l/LC_MESSAGES is a directory, listdir raises   *)
(*               "entries"  l/LC_MESSAGES is a directory with an entry     *)
(* fs.desktop  the paths under the mount whose name ends in .desktop       *)
(***************************************************************************)
sv == <<"s","v">>
de_DE == <<"d","e","_","D","E">>
fr == <<"f","r">>

CandStates == {"missing", "denied", "dir"}
LcStates == {"absent", "nolc", "empty", "denied", "entries"}

\* the candidate directories over the language directories L
Candidates(L) ==
    {[state |-> "missing", lc |-> [l \in L |-> "absent"]],
     [state |-> "denied", lc |-> [l \in L |-> "absent"]]}
    \cup {[state |-> "dir", lc |-> f] : f \in [L -> LcStates]}

NoLocale(L) == [i \in 1..3 |-> [state |-> "missing", lc |-> [l \in L |-> "absent"]]]

\* the locale-directory names of a filesystem
LangsOf(f) == DOMAIN f.locale[1].lc

(***************************************************************************)
(* Paths                                                                   *)
(***************************************************************************)
S_snap == <<"s","n","a","p">>
S_current == <<"c","u","r","r","e","n","t">>
S_dotdot == <<".",".">>
S_dot == <<".">>
S_usr == <<"u","s","r">>
S_share == <<"s","h","a","r","e">>
S_local == <<"l","o","c","a","l">>
S_locale == <<"l","o","c","a","l","e">>

\* f"/snap/{snap_name}/current"
snap_mount(snap_name) == <<"/">> \o S_snap \o <<"/">> \o snap_name \o <<"/">> \o S_current

\* The directory an absolute path names: the kernel walks the components,
\* skipping "" and ".", and ".." leaves the directory reached so far.
RECURSIVE Walk(_, _)
Walk(parts, at) ==
    IF parts = <<>> THEN at
    ELSE LET p == Head(parts) IN
         IF p = <<>> \/ p = S_dot THEN Walk(Tail(parts), at)
         ELSE IF p = S_dotdot
              THEN Walk(Tail(parts), IF at = <<>> THEN at ELSE SubSeq(at, 1, Len(at) - 1))
              ELSE Walk(Tail(parts), Append(at, p))

Resolve(path) == Walk(Split(path, "/"), <<>>)

\* os.path.join(snap_mount, "usr", "share", "locale") and the two others
locale_dirs(mount) ==
    <<mount \o <<"/">> \o S_usr \o <<"/">> \o S_share \o <<"/">> \o S_locale,
      mount \o <<"/">> \o S_share \o <<"/">> \o S_locale,
      mount \o <<"/">> \o S_usr \o <<"/">> \o S_local \o <<"/">> \o S_share
            \o <<"/">> \o S_locale>>

(***************************************************************************)
(* _find_locale_files                                                      *)
(***************************************************************************)
\* ScanLocaleDir without the test that LC_MESSAGES has an entry
ScanLocaleDirAnyLcMessages(cand) ==
    IF cand.state = "missing" THEN [exc |-> "", found |-> {}]
    ELSE IF cand.state = "denied" THEN [exc |-> "PermissionError", found |-> {}]
    ELSE [exc |-> "",
          found |-> {l \in DOMAIN cand.lc : cand.lc[l] \in {"entries", "empty", "denied"}}]

\* the body of the loop over os.listdir(locale_dir), for one candidate:
\* the languages it adds, or the exception os.listdir raises
ScanLocaleDir(cand) ==
    IF cand.state = "missing" THEN [exc |-> "", found |-> {}]
    ELSE IF cand.state = "denied" THEN [exc |-> "PermissionError", found |-> {}]
    ELSE IF \E l \in DOMAIN cand.lc : cand.lc[l] = "denied"
         THEN [exc |-> "PermissionError", found |-> {}]
         ELSE [exc |-> "", found |-> {l \in DOMAIN cand.lc : cand.lc[l] = "entries"}]

RECURSIVE ScanLocaleDirs(_, _, _)
ScanLocaleDirs(cands, i, languages) ==
    IF i > Len(cands) THEN [exc |-> "", found |-> languages]
    ELSE LET r == ScanLocaleDir(cands[i]) IN
         IF r.exc # "" THEN [exc |-> r.exc, found |-> {}]
         ELSE ScanLocaleDirs(cands, i + 1, languages \cup r.found)

\* _find_locale_files listing the mount without testing that it exists
find_locale_files_listing(snap_name, f) ==
    IF ~f.mount
    THEN [exc |-> "FileNotFoundError", value |-> <<>>]
    ELSE LET r == ScanLocaleDirs(f.locale, 1, {})
         IN [exc |-> r.exc, value |-> IF r.exc = "" THEN Sorted(r.found) ELSE <<>>]

_find_locale_files(snap_name, f) ==
    IF ~f.mount
    THEN [exc |-> "", value |-> <<>>]
    ELSE LET r == ScanLocaleDirs(f.locale, 1, {})
         IN [exc |-> r.exc, value |-> IF r.exc = "" THEN Sorted(r.found) ELSE <<>>]

\* the directories _find_locale_files asks the kernel about: the mount, and
\* under an existing mount the three candidates
locale_accessed(snap_name, f) ==
    LET mount == snap_mount(snap_name)
        dirs == locale_dirs(mount)
    IN {Resolve(mount)} \cup (IF f.mount THEN {Resolve(dirs[i]) : i \in 1..3} ELSE {})

(***************************************************************************)
(* _check_desktop_l10n                                                     *)
(*                                                                         *)
(* A path of fs.desktop is [hidden, kind, keys]:                           *)
(*   hidden  glob.glob does not return it: its name, or the name of a      *)
(*           directory above it, starts with a dot (matched neither by     *)
(*           "**" nor by "*.desktop"), or a directory above it cannot be   *)
(*           listed (glob skips it silently)                               *)
(*   kind    "ok"          parses and has a [Desktop Entry] section        *)
(*           "nosection"   parses, no [Desktop Entry] section              *)
(*           "malformed"   RawConfigParser.read raises (no section header, *)
(*                         a line that is no key, undecodable bytes)       *)
(*           "unreadable"  cannot be opened (a directory, no permission):  *)
(*                         RawConfigParser.read skips it silently          *)
(*   keys    the option names of [Desktop Entry] as written in the file    *)
(***************************************************************************)
K_Name == <<"N","a","m","e">>  \* Name
K_Name_sv == <<"N","a","m","e","[","s","v","]">>  \* Name[sv]
K_Comment_de_DE == <<"C","o","m","m","e","n","t","[","d","e","_","D","E","]">>  \* Comment[de_DE]
K_Name_sv_UTF8 == <<"N","a","m","e","[","s","v",".","U","T","F","-","8","]">>  \* Name[sv.UTF-8]
K_Name_sr_latin == <<"N","a","m","e","[","s","r","@","l","a","t","i","n","]">>  \* Name[sr@latin]
K_Name_empty == <<"N","a","m","e","[","]">>  \* Name[]
K_Name_dot_UTF8 == <<"N","a","m","e","[",".","U","T","F","-","8","]">>  \* Name[.UTF-8]
K_Name_at_latin == <<"N","a","m","e","[","@","l","a","t","i","n","]">>  \* Name[@latin]

Keys == {K_Name, K_Name_sv, K_Comment_de_DE, K_Name_sv_UTF8, K_Name_sr_latin,
         K_Name_empty, K_Name_dot_UTF8, K_Name_at_latin}

NoneValue == [isNone |-> TRUE, items |-> <<>>]
ListValue(items) == [isNone |-> FALSE, items |-> items]

\* glob.glob(os.path.join(snap_mount, "**", "*.desktop"), recursive=True)
glob_desktop(f) == {d \in f.desktop : ~d.hidden}

\* RawConfigParser.optionxform
optionxform(key) == Lower(key)

\* cp.options("Desktop Entry") after cp.read(df): the option names, or the
\* exception the strict parser raises
options(d) ==
    IF d.kind = "malformed" THEN [exc |-> "ParsingError", names |-> {}]
    ELSE IF \E a \in d.keys, b \in d.keys : a # b /\ optionxform(a) = optionxform(b)
         THEN [exc |-> "DuplicateOptionError", names |-> {}]
         ELSE [exc |-> "", names |-> {optionxform(k) : k \in d.keys}]

\* the language a key adds to the set, if any (the body of the loop over the keys)
key_language(key) ==
    IF Contains(key, "[") /\ Contains(key, "]")
    THEN LET lang == RStrip(Split(key, "[")[2], "]") IN
         IF lang # <<>> THEN {Split(Split(lang, ".")[1], "@")[1]} ELSE {}
    ELSE {}

\* the languages one desktop file adds (the body of the loop over desktop_files)
file_languages(d) ==
    IF d.kind \in {"unreadable", "nosection"} THEN {}
    ELSE LET o == options(d) IN
         IF o.exc # "" THEN {}
         ELSE UNION {key_language(k) : k \in o.names}

_check_desktop_l10n(snap_name, f) ==
    LET desktop_files == glob_desktop(f)
    IN IF desktop_files = {}
       THEN NoneValue
       ELSE ListValue(Sorted(UNION {file_languages(d) : d \in desktop_files}))

\* the directory glob.glob walks
desktop_accessed(snap_name, f) == {Resolve(snap_mount(snap_name))}

(***************************************************************************)
(* get_snap_l10n_info                                                      *)
(*                                                                         *)
(* A package record of the registry is [name, version, publisher]; a key   *)
(* the JSON object lacks is Missing. publisher is an object with           *)
(* display-name and username ("dict"), a string ("str") or null.           *)
(***************************************************************************)
Missing == [has |-> FALSE, v |-> <<>>]
Some(v) == [has |-> TRUE, v |-> v]

\* dict.get(key, default)
DictGet(field, default) == IF field.has THEN field.v ELSE default

\* a or b on strings
StrOr(a, b) == IF a # <<>> THEN a ELSE b

\* classify with has_desktop true for every list, the empty one included
classifyAnyList(languages, desktop_l10n) ==
    IF Len(languages) > 0 /\ ~desktop_l10n.isNone THEN "full"
    ELSE IF Len(languages) > 0 \/ ~desktop_l10n.isNone THEN "partial"
    ELSE "none"

classify(languages, desktop_l10n) ==
    LET has_locale == Len(languages) > 0
        has_desktop == ~desktop_l10n.isNone /\ Len(desktop_l10n.items) > 0
    IN IF has_locale /\ has_desktop THEN "full"
       ELSE IF has_locale \/ has_desktop THEN "partial"
       ELSE "none"

\* publisher_name with the username taking precedence
publisher_nameUsernameFirst(p) ==
    IF p.kind = "missing" THEN <<>>
    ELSE IF p.kind = "dict"
         THEN StrOr(DictGet(p.username, <<>>), StrOr(DictGet(p.display, <<>>), <<>>))
         ELSE IF p.kind = "str" THEN p.text ELSE <<>>

publisher_name(p) ==
    IF p.kind = "missing" THEN <<>>
    ELSE IF p.kind = "dict"
         THEN StrOr(DictGet(p.display, <<>>), StrOr(DictGet(p.username, <<>>), <<>>))
         ELSE IF p.kind = "str" THEN p.text ELSE <<>>

NoInfo ==
    [call |-> "", exc |-> "", name |-> <<>>, version |-> <<>>, publisher |-> <<>>,
     languages |-> <<>>, desktop_l10n |-> NoneValue, status |-> "", accessed |-> {}]

\* the dict get_snap_l10n_info builds from the two probes' results, or the
\* exception of _find_locale_files, which it lets through
build_info(s, name, loc, desktop_l10n) ==
    IF loc.exc # ""
    THEN [NoInfo EXCEPT !.exc = loc.exc]
    ELSE [NoInfo EXCEPT !.name = name,
                        !.version = DictGet(s.version, <<>>),
                        !.publisher = publisher_name(s.publisher),
                        !.languages = loc.value,
                        !.desktop_l10n = desktop_l10n,
                        !.status = classify(loc.value, desktop_l10n)]

get_snap_l10n_info(s, f) ==
    build_info(s, DictGet(s.name, <<>>),
               _find_locale_files(DictGet(s.name, <<>>), f),
               _check_desktop_l10n(DictGet(s.name, <<>>), f))

\* the directories one call of get_snap_l10n_info asks the kernel about:
\* _check_desktop_l10n is not reached when _find_locale_files raises
info_accessed(s, f) ==
    LET name == DictGet(s.name, <<>>) IN
    locale_accessed(name, f)
    \cup (IF _find_locale_files(name, f).exc = "" THEN desktop_accessed(name, f) ELSE {})

(***************************************************************************)
(* _snapd_get and get_installed_snaps                                      *)
(*                                                                         *)
(* response is what the daemon does with one GET:                          *)
(*   connect     "ok", or "refused": conn.request raises while connecting, *)
(*               and no connection was opened                              *)
(*   read        "ok"; "disconnected": conn.getresponse raises a           *)
(*               ConnectionError, and http.client closes the connection    *)
(*               before it re-raises; "incomplete": resp.read raises       *)
(*   will_close  the reply asks to close the connection, and http.client   *)
(*               then closes it in getresponse; snapd's replies keep the   *)
(*               connection alive                                          *)
(*   body        "json", or "malformed": json.loads raises                 *)
(*   type        the decoded object's "type": "sync", "error" or "missing" *)
(*   result      the decoded object's "result": [kind, message, list],     *)
(*               kind "missing", "object" (with an optional message),      *)
(*               "list" (of package records) or "scalar"                   *)
(*                                                                         *)
(* A reply is what the call hands its caller: the exception raised (exc,   *)
(* with its message) or the value returned (kind "list" with the list,     *)
(* "object" for the decoded body itself, "scalar"), and open, the number   *)
(* of connections the call opened and did not close.                       *)
(***************************************************************************)
DefaultMessage == "snapd error"

NoReply == [exc |-> "", message |-> "", kind |-> "none", list |-> <<>>, open |-> 0]

\* whether the call leaves its connection open when it ends after the
\* response arrived and before conn.close() is reached
LeftOpen(r) == IF r.will_close THEN 0 ELSE 1

\* unwrap without the test of "type"
unwrapAnyType(r) ==
    IF r.result.kind = "missing"
    THEN [NoReply EXCEPT !.kind = "object"]
    ELSE [NoReply EXCEPT !.kind = r.result.kind, !.list = r.result.list]

\* lines 36-38, after conn.close(): the error raised for an error-typed
\* object, else its result, or the object itself when it has none
unwrap(r) ==
    IF r.type = "error"
    THEN IF r.result.kind = "missing"
         THEN [NoReply EXCEPT !.exc = "RuntimeError", !.message = DefaultMessage]
         ELSE IF r.result.kind = "object"
         THEN [NoReply EXCEPT !.exc = "RuntimeError",
                              !.message = DictGet(r.result.message, DefaultMessage)]
         ELSE [NoReply EXCEPT !.exc = "AttributeError",
                              !.message = "object has no attribute 'get'"]
    ELSE IF r.result.kind = "missing"
    THEN [NoReply EXCEPT !.kind = "object"]
    ELSE [NoReply EXCEPT !.kind = r.result.kind, !.list = r.result.list]

_snapd_get(r) ==
    IF r.connect = "refused"
    THEN [NoReply EXCEPT !.exc = "ConnectionRefusedError"]
    ELSE IF r.read = "disconnected"
    THEN [NoReply EXCEPT !.exc = "RemoteDisconnected"]
    ELSE IF r.read = "incomplete"
    THEN [NoReply EXCEPT !.exc = "IncompleteRead", !.open = LeftOpen(r)]
    ELSE IF r.body = "malformed"
    THEN [NoReply EXCEPT !.exc = "JSONDecodeError", !.open = LeftOpen(r)]
    ELSE unwrap(r)

get_installed_snaps(r) == _snapd_get(r)

(***************************************************************************)
(* Inputs                                                                  *)
(***************************************************************************)
MaxKeys == 3          \* option names of one desktop file
MaxFiles == 2         \* .desktop paths of one package
MaxInspectFiles == 1  \* .desktop paths of one package, whole-record runs
MaxSnaps == 2         \* package records of one registry response
MaxRefresh == 2       \* refreshes triggered in one run, startup included

\* the subsets of S with at most k members
RECURSIVE KSubsets(_, _)
KSubsets(S, k) ==
    IF k = 0 THEN {{}}
    ELSE LET P == KSubsets(S, k - 1) IN P \cup {p \cup {x} : p \in P, x \in S}

N_core == <<"c","o","r","e">>
N_traversal == <<".",".","/",".",".","/","e","t","c">>  \* ../../etc
N_nested == <<"a","/","b">>
N_dotdot == <<".",".">>
N_empty == <<>>
N_alpha == <<"a","l","p","h","a">>
N_beta == <<"b","e","t","a">>
N_Zeta == <<"Z","e","t","a">>
V_one == <<"1">>
P_Canonical == <<"C","a","n","o","n","i","c","a","l">>
P_canonical == <<"c","a","n","o","n","i","c","a","l">>

Names == {N_core, N_traversal, N_nested, N_dotdot, N_empty}

Publishers ==
    {[kind |-> "missing", display |-> Missing, username |-> Missing, text |-> <<>>],
     [kind |-> "dict", display |-> Some(P_Canonical), username |-> Some(P_canonical),
      text |-> <<>>]}

\* the forms of "publisher": an object whose display-name and username are
\* each missing, empty or set, a string, and null
PublisherForms ==
    {[kind |-> "dict", display |-> d, username |-> u, text |-> <<>>] :
        d \in {Missing, Some(<<>>), Some(P_Canonical)},
        u \in {Missing, Some(<<>>), Some(P_canonical)}}
    \cup {[kind |-> "str", display |-> Missing, username |-> Missing, text |-> P_canonical],
          [kind |-> "null", display |-> Missing, username |-> Missing, text |-> <<>>]}

SnapRecords ==
    {[name |-> n, version |-> Some(V_one), publisher |-> p] :
        n \in {Missing} \cup {Some(x) : x \in Names}, p \in Publishers}
    \cup {[name |-> Some(N_core), version |-> Some(V_one), publisher |-> p] :
             p \in PublisherForms}
    \cup {[name |-> Some(N_core), version |-> Missing, publisher |-> p] :
             p \in Publishers}

UnparsedFiles ==
    {[hidden |-> FALSE, kind |-> k, keys |-> {}] :
        k \in {"nosection", "malformed", "unreadable"}}

HiddenFiles == {[hidden |-> TRUE, kind |-> "ok", keys |-> K] : K \in {{}, {K_Name_sv}}}

DesktopFiles ==
    UnparsedFiles \cup HiddenFiles
    \cup {[hidden |-> FALSE, kind |-> "ok", keys |-> K] : K \in KSubsets(Keys, MaxKeys)}

InspectFiles ==
    {[hidden |-> FALSE, kind |-> "nosection", keys |-> {}],
     [hidden |-> FALSE, kind |-> "malformed", keys |-> {}],
     [hidden |-> FALSE, kind |-> "ok", keys |-> {K_Name}],
     [hidden |-> FALSE, kind |-> "ok", keys |-> {K_Name_sv}],
     [hidden |-> FALSE, kind |-> "ok", keys |-> {K_Name_dot_UTF8}],
     [hidden |-> TRUE, kind |-> "ok", keys |-> {K_Name_sv}]}

\* a package whose mount directory does not exist
NoMount(L) == [mount |-> FALSE, locale |-> NoLocale(L), desktop |-> {}]

LocaleFs ==
    {NoMount({sv, de_DE})}
    \cup {[mount |-> TRUE, locale |-> c, desktop |-> {}] :
             c \in [1..3 -> Candidates({sv, de_DE})]}

DesktopFs ==
    {[mount |-> TRUE, locale |-> NoLocale({sv}), desktop |-> D] :
        D \in KSubsets(DesktopFiles, MaxFiles)}

InspectFs ==
    {NoMount({fr})}
    \cup {[mount |-> TRUE, locale |-> c, desktop |-> D] :
             c \in [1..3 -> Candidates({fr})],
             D \in KSubsets(InspectFiles, MaxInspectFiles)}

(***************************************************************************)
(* Registry inputs                                                         *)
(***************************************************************************)
Package(n) ==
    [name |-> Some(n), version |-> Some(V_one),
     publisher |-> [kind |-> "dict", display |-> Some(P_Canonical),
                    username |-> Some(P_canonical), text |-> <<>>]]

\* the lists of at most k package records named in N
PackageLists(N, k) == UNION {[1..n -> {Package(x) : x \in N}] : n \in 0..k}

Result(kind, message, list) == [kind |-> kind, message |-> message, list |-> list]

Results(N) ==
    {Result("missing", Missing, <<>>), Result("scalar", Missing, <<>>),
     Result("object", Missing, <<>>), Result("object", Some("no such daemon"), <<>>)}
    \cup {Result("list", Missing, l) : l \in PackageLists(N, MaxSnaps)}

Responses(N) ==
    [connect : {"ok", "refused"}, read : {"ok", "disconnected", "incomplete"},
     will_close : BOOLEAN, body : {"json", "malformed"},
     type : {"sync", "error", "missing"}, result : Results(N)]

NoResponse ==
    [connect |-> "ok", read |-> "ok", will_close |-> FALSE, body |-> "json",
     type |-> "sync", result |-> Result("list", Missing, <<>>)]

(***************************************************************************)
(* State after construction                                                *)
(***************************************************************************)
\* no export has written yet; exported.rows are the rows the last export
\* handed to csv.DictWriter or json.dump
NoExport == [fmt |-> "", rows |-> <<>>]

FILTER_ALL == 0
FILTER_NONE == 1
FILTER_PARTIAL == 2

InspectIdle ==
    /\ snap = Package(N_core)
    /\ fs = NoMount({fr})
    /\ info = NoInfo

RegistryIdle ==
    /\ response = NoResponse
    /\ reply = NoReply
    /\ openConns = 0

\* SnapL10nWindow.__init__, which ends by queueing the first _load_snaps
WindowInit(system_langs) ==
    /\ requests = 0
    /\ triggers = 1
    /\ idle = 1
    /\ lastLoad = "none"
    /\ world = <<>>
    /\ _snaps = <<>>
    /\ _current_filter = FILTER_ALL
    /\ _current_language = Missing
    /\ _all_languages = <<>>
    /\ _heatmap_mode = FALSE
    /\ _system_lang \in system_langs
    /\ _stack = "loading"
    /\ _status_page = [title |-> "Loading", description |-> ""]
    /\ _listbox = <<>>
    /\ _heatmap_flow = <<>>
    /\ _export_fmt = ""
    /\ exported = NoExport

(***************************************************************************)
(* The probes and the registry call, each applied to every input           *)
(***************************************************************************)
FindLocaleFiles ==
    /\ info.call = ""
    /\ LET r == _find_locale_files(DictGet(snap.name, <<>>), fs) IN
       info' = [NoInfo EXCEPT !.call = "_find_locale_files", !.exc = r.exc,
                              !.languages = r.value,
                              !.accessed = locale_accessed(DictGet(snap.name, <<>>), fs)]
    /\ UNCHANGED <<snap, fs, registryVars, windowVars>>

CheckDesktopL10n ==
    /\ info.call = ""
    /\ LET r == _check_desktop_l10n(DictGet(snap.name, <<>>), fs) IN
       info' = [NoInfo EXCEPT !.call = "_check_desktop_l10n",
                              !.desktop_l10n = r,
                              !.accessed = desktop_accessed(DictGet(snap.name, <<>>), fs)]
    /\ UNCHANGED <<snap, fs, registryVars, windowVars>>

GetSnapL10nInfo ==
    /\ info.call = ""
    /\ info' = [get_snap_l10n_info(snap, fs) EXCEPT
                   !.call = "get_snap_l10n_info",
                   !.accessed = info_accessed(snap, fs)]
    /\ UNCHANGED <<snap, fs, registryVars, windowVars>>

SnapdGet ==
    /\ reply = NoReply
    /\ reply' = _snapd_get(response)
    /\ openConns' = openConns + reply'.open
    /\ UNCHANGED <<response, inspectVars, windowVars>>

InitLocale ==
    /\ snap = Package(N_core)
    /\ fs \in LocaleFs
    /\ info = NoInfo
    /\ RegistryIdle /\ WindowInit({<<>>})
SpecLocale == InitLocale /\ [][FindLocaleFiles]_vars

InitDesktop ==
    /\ snap = Package(N_core)
    /\ fs \in DesktopFs
    /\ info = NoInfo
    /\ RegistryIdle /\ WindowInit({<<>>})
SpecDesktop == InitDesktop /\ [][CheckDesktopL10n]_vars

InitInspect ==
    /\ snap \in SnapRecords
    /\ fs \in InspectFs
    /\ info = NoInfo
    /\ RegistryIdle /\ WindowInit({<<>>})
SpecInspect == InitInspect /\ [][GetSnapL10nInfo]_vars

InitRegistry ==
    /\ response \in Responses({N_alpha, N_beta})
    /\ reply = NoReply
    /\ openConns = 0
    /\ InspectIdle /\ WindowInit({<<>>})
SpecRegistry == InitRegistry /\ [][SnapdGet]_vars

(***************************************************************************)
(* The main window                                                         *)
(***************************************************************************)
\* the dict get_snap_l10n_info returns
InfoDict(i) ==
    [name |-> i.name, version |-> i.version, publisher |-> i.publisher,
     languages |-> i.languages, desktop_l10n |-> i.desktop_l10n, status |-> i.status]

\* list.sort(key=lambda s: s["name"]): stable, ascending by name
RECURSIVE InsertByName(_, _)
InsertByName(sorted, x) ==
    IF sorted = <<>> THEN <<x>>
    ELSE IF StrLess(x.name, Head(sorted).name) THEN <<x>> \o sorted
    ELSE <<Head(sorted)>> \o InsertByName(Tail(sorted), x)

\* SortByName leaving the list in the order of the registry response
KeepOrder(list) == list

RECURSIVE SortByName(_)
SortByName(list) ==
    IF list = <<>> THEN <<>>
    ELSE InsertByName(SortByName(SubSeq(list, 1, Len(list) - 1)), list[Len(list)])

\* the languages a record is listed under: languages, and desktop_l10n if truthy
snap_langs(i) ==
    Range(i.languages)
    \cup (IF ~i.desktop_l10n.isNone THEN Range(i.desktop_l10n.items) ELSE {})

\* Shown without the test of the selected language
ShownAnyLanguage(list, filter, language) ==
    SelectSeq(list, LAMBDA i :
        /\ ~(filter = FILTER_NONE /\ i.status # "none")
        /\ ~(filter = FILTER_PARTIAL /\ i.status # "partial"))

\* the records _populate shows, in the order of self._snaps
Shown(list, filter, language) ==
    SelectSeq(list, LAMBDA i :
        /\ ~(filter = FILTER_NONE /\ i.status # "none")
        /\ ~(filter = FILTER_PARTIAL /\ i.status # "partial")
        /\ (language.has => language.v \in snap_langs(i)))

HeatmapBox(i) == [name |-> i.name, status |-> i.status]

\* the widgets _populate leaves when rows are the records it shows
widgets(rows, heatmap_mode, page) ==
    [listbox |-> rows,
     heatmap_flow |-> [k \in 1..Len(rows) |-> HeatmapBox(rows[k])],
     status_page |-> IF Len(rows) = 0
                     THEN [title |-> "No snaps found",
                           description |-> "No snaps match the current filter."]
                     ELSE page,
     stack |-> IF Len(rows) = 0 THEN "loading"
               ELSE IF heatmap_mode THEN "heatmap" ELSE "list"]

_populate(list, filter, language, heatmap_mode, page) ==
    widgets(Shown(list, filter, language), heatmap_mode, page)

SetWidgets(w) ==
    /\ _listbox' = w.listbox
    /\ _heatmap_flow' = w.heatmap_flow
    /\ _status_page' = w.status_page
    /\ _stack' = w.stack

Populate(list, filter, language, heatmap_mode) ==
    SetWidgets(_populate(list, filter, language, heatmap_mode, _status_page))

\* _update_language_list: the sorted languages of all records, and the entry
\* the dropdown ends on (the system language if listed, else "All languages")
all_languages(list) == Sorted(UNION {snap_langs(list[k]) : k \in 1..Len(list)})

auto_language(langs, system_lang) ==
    IF system_lang # <<>> /\ system_lang \in Range(langs)
    THEN Some(system_lang) ELSE Missing

\* the list a comprehension builds from its items' outcomes, or the first
\* exception among them
collect(infos) ==
    IF \E k \in 1..Len(infos) : infos[k].exc # ""
    THEN [exc |-> infos[CHOOSE k \in 1..Len(infos) :
                          /\ infos[k].exc # ""
                          /\ \A j \in 1..(k - 1) : infos[j].exc = ""].exc,
          list |-> <<>>]
    ELSE [exc |-> "", list |-> [k \in 1..Len(infos) |-> InfoDict(infos[k])]]

\* [get_snap_l10n_info(s) for s in snaps]
inspect_all(list, w) ==
    collect([k \in 1..Len(list) |->
               get_snap_l10n_info(list[k], w[DictGet(list[k].name, <<>>)])])

\* self._snaps after the sort, or the exception the comprehension raised
sorted_or_raised(got) ==
    IF got.exc # ""
    THEN [exc |-> got.exc, message |-> "Permission denied", snaps |-> <<>>]
    ELSE [exc |-> "", message |-> "", snaps |-> SortByName(got.list)]

\* the try block of _load_snaps: the new self._snaps, or the exception caught
\* (iterating a decoded object yields its keys, which are strings)
load(r, w) ==
    IF r.exc # "" THEN [exc |-> r.exc, message |-> r.message, snaps |-> <<>>]
    ELSE IF r.kind = "scalar"
    THEN [exc |-> "TypeError", message |-> "object is not iterable", snaps |-> <<>>]
    ELSE IF r.kind # "list"
    THEN [exc |-> "AttributeError", message |-> "object has no attribute 'get'",
          snaps |-> <<>>]
    ELSE sorted_or_raised(inspect_all(r.list, w))

(***************************************************************************)
(* The window's inputs: two packages, whose names differ in case, over     *)
(* four filesystems: locale only, an untranslated desktop file only, both, *)
(* and a locale directory that cannot be listed                            *)
(***************************************************************************)
WindowNames == {N_alpha, N_Zeta}

LocaleDir(l, state) == [state |-> "dir", lc |-> [x \in {l} |-> state]]

FsLocaleOnly ==
    [mount |-> TRUE, locale |-> [NoLocale({fr}) EXCEPT ![1] = LocaleDir(fr, "entries")],
     desktop |-> {}]
FsDesktopOnly ==
    [mount |-> TRUE, locale |-> NoLocale({fr}),
     desktop |-> {[hidden |-> FALSE, kind |-> "ok", keys |-> {K_Name}]}]
FsBoth ==
    [mount |-> TRUE, locale |-> [NoLocale({fr}) EXCEPT ![1] = LocaleDir(fr, "entries")],
     desktop |-> {[hidden |-> FALSE, kind |-> "ok", keys |-> {K_Name, K_Name_sv}]}]
FsDenied ==
    [mount |-> TRUE,
     locale |-> [NoLocale({fr}) EXCEPT ![1] = [state |-> "denied",
                                              lc |-> [x \in {fr} |-> "absent"]]],
     desktop |-> {}]

WindowFs == {FsLocaleOnly, FsDesktopOnly, FsBoth, FsDenied}

Worlds == [WindowNames -> WindowFs]

ListResponse(l) == [NoResponse EXCEPT !.result = Result("list", Missing, l)]

WindowResponses ==
    {ListResponse(l) : l \in PackageLists(WindowNames, MaxSnaps)}
    \cup {[NoResponse EXCEPT !.connect = "refused"],
          [NoResponse EXCEPT !.body = "malformed"],
          [NoResponse EXCEPT !.type = "error",
                             !.result = Result("object", Some("no such daemon"), <<>>)]}

(***************************************************************************)
(* The window's handlers                                                   *)
(***************************************************************************)
\* what one run of _load_snaps computes, for every daemon response and every
\* state of the packages' filesystems: the reply of get_installed_snaps, then
\* the try block, then the list _update_language_list builds
LoadRecord(rep, res) ==
    [reply |-> rep, exc |-> res.exc, message |-> res.message,
     snaps |-> res.snaps, all_languages |-> all_languages(res.snaps)]

LoadOf(r, w) == LoadRecord(get_installed_snaps(r), load(get_installed_snaps(r), w))

\* LoadOf held as an explicit table, by response and by filesystems
RECURSIVE LoadsOver(_, _)
LoadsOver(r, W) ==
    IF W = {} THEN [x \in {} |-> x]
    ELSE LET w == CHOOSE y \in W : TRUE
         IN (w :> LoadOf(r, w)) @@ LoadsOver(r, W \ {w})

RECURSIVE LoadsFor(_)
LoadsFor(R) ==
    IF R = {} THEN [x \in {} |-> x]
    ELSE LET r == CHOOSE y \in R : TRUE
         IN (r :> LoadsOver(r, Worlds)) @@ LoadsFor(R \ {r})

Loads == LoadsFor(WindowResponses)

\* stored extending the records of the earlier refreshes
stored_extending(res, old) ==
    IF res.exc # "" THEN old ELSE SortByName(old \o res.snaps)

\* stored dropping the records when the refresh fails
stored_clearing(res, old) == IF res.exc # "" THEN <<>> ELSE res.snaps

\* self._snaps after the try block: the assignment is reached only when
\* neither get_installed_snaps nor the comprehension raised
stored(res, old) == IF res.exc # "" THEN old ELSE res.snaps

\* LoadSnapsWith returning True after a failure: the main loop runs it again
LoadSnapsRetrying(r, w, res) ==
    /\ idle' = IF res.exc # "" THEN idle ELSE idle - 1
    /\ requests' = requests + 1
    /\ response' = r
    /\ reply' = res.reply
    /\ openConns' = openConns + res.reply.open
    /\ world' = IF res.exc = "" THEN w ELSE world
    /\ IF res.exc # ""
       THEN /\ lastLoad' = "error"
            /\ _status_page' =
                 [title |-> "Error",
                  description |-> IF res.message # "" THEN res.message ELSE res.exc]
            /\ UNCHANGED <<_snaps, _all_languages, _current_language,
                           _listbox, _heatmap_flow, _stack>>
       ELSE /\ lastLoad' = "ok"
            /\ _snaps' = res.snaps
            /\ _all_languages' = res.all_languages
            /\ _current_language' = auto_language(res.all_languages, _system_lang)
            /\ Populate(res.snaps, _current_filter,
                        auto_language(res.all_languages, _system_lang),
                        _heatmap_mode)

\* _load_snaps with the daemon answering r and the filesystems being w.
\* _update_language_list empties and refills the dropdown's model and selects
\* an entry; the notifications this sends run _on_language_changed, and the
\* last of them leaves self._current_language on the entry selected last,
\* before _load_snaps itself calls _populate
LoadSnapsWith(r, w, res) ==
    /\ idle' = idle - 1
    /\ requests' = requests + 1
    /\ response' = r
    /\ reply' = res.reply
    /\ openConns' = openConns + res.reply.open
    /\ world' = IF res.exc = "" THEN w ELSE world
    /\ _snaps' = stored(res, _snaps)
    /\ IF res.exc # ""
       THEN /\ lastLoad' = "error"
            /\ _status_page' =
                 [title |-> "Error",
                  description |-> IF res.message # "" THEN res.message ELSE res.exc]
            /\ UNCHANGED <<_all_languages, _current_language,
                           _listbox, _heatmap_flow, _stack>>
       ELSE /\ lastLoad' = "ok"
            /\ _all_languages' = res.all_languages
            /\ _current_language' = auto_language(res.all_languages, _system_lang)
            /\ Populate(res.snaps, _current_filter,
                        auto_language(res.all_languages, _system_lang),
                        _heatmap_mode)

\* _load_snaps, run by the main loop for one queued idle callback; it returns
\* False on every path, so the callback is not run again
LoadSnaps ==
    /\ idle > 0
    /\ \E r \in WindowResponses, w \in Worlds : LoadSnapsWith(r, w, Loads[r][w])
    /\ UNCHANGED <<inspectVars, exportVars, triggers, _current_filter,
                   _heatmap_mode, _system_lang>>

\* _on_refresh
OnRefresh ==
    /\ triggers < MaxRefresh
    /\ triggers' = triggers + 1
    /\ _stack' = "loading"
    /\ _status_page' = [title |-> "Loading", description |-> ""]
    /\ idle' = idle + 1
    /\ UNCHANGED <<inspectVars, registryVars, exportVars, requests, lastLoad, world, _snaps,
                   _current_filter, _current_language, _all_languages,
                   _heatmap_mode, _system_lang, _listbox, _heatmap_flow>>

\* OnFilterChanged keeping only the shown records in self._snaps
OnFilterChangedDropping ==
    /\ \E f \in {FILTER_ALL, FILTER_NONE, FILTER_PARTIAL} \ {_current_filter} :
         /\ _current_filter' = f
         /\ _snaps' = Shown(_snaps, f, _current_language)
         /\ Populate(_snaps, f, _current_language, _heatmap_mode)
    /\ UNCHANGED <<inspectVars, registryVars, exportVars, requests, triggers, idle,
                   lastLoad, world, _current_language, _all_languages,
                   _heatmap_mode, _system_lang>>

\* _on_filter_changed: the dropdown notifies when its selection changes
OnFilterChanged ==
    /\ \E f \in {FILTER_ALL, FILTER_NONE, FILTER_PARTIAL} \ {_current_filter} :
         /\ _current_filter' = f
         /\ Populate(_snaps, f, _current_language, _heatmap_mode)
    /\ UNCHANGED <<inspectVars, registryVars, exportVars, requests, triggers, idle, lastLoad,
                   world, _snaps, _current_language, _all_languages, _heatmap_mode,
                   _system_lang>>

\* _on_language_changed
OnLanguageChanged ==
    /\ \E idx \in 0..Len(_all_languages) :
         LET language == IF idx = 0 THEN Missing ELSE Some(_all_languages[idx]) IN
         /\ language # _current_language
         /\ _current_language' = language
         /\ Populate(_snaps, _current_filter, language, _heatmap_mode)
    /\ UNCHANGED <<inspectVars, registryVars, exportVars, requests, triggers, idle, lastLoad,
                   world, _snaps, _current_filter, _all_languages, _heatmap_mode,
                   _system_lang>>

\* _on_heatmap_toggled
OnHeatmapToggled ==
    /\ _heatmap_mode' = ~_heatmap_mode
    /\ IF _snaps # <<>>
       THEN Populate(_snaps, _current_filter, _current_language, ~_heatmap_mode)
       ELSE UNCHANGED <<_listbox, _heatmap_flow, _status_page, _stack>>
    /\ UNCHANGED <<inspectVars, registryVars, exportVars, requests, triggers, idle, lastLoad,
                   world, _snaps, _current_filter, _current_language,
                   _all_languages, _system_lang>>

\* a Python value with its type: None, a list of strings, or a bool
PyNone == [type |-> "NoneType", items |-> <<>>, truth |-> FALSE]
PyList(items) == [type |-> "list", items |-> items, truth |-> FALSE]
PyBool(b) == [type |-> "bool", items |-> <<>>, truth |-> b]

\* s.get("desktop_l10n", False): the record's value, for the key is always set
get_desktop_l10n(i) ==
    IF "desktop_l10n" \in DOMAIN i
    THEN IF i.desktop_l10n.isNone THEN PyNone ELSE PyList(i.desktop_l10n.items)
    ELSE PyBool(FALSE)

\* one item of data
export_row(i) ==
    [name |-> i.name, status |-> i.status, languages |-> Len(i.languages),
     desktop_l10n |-> get_desktop_l10n(i)]

\* data, built from self._snaps
export_data(list) == [k \in 1..Len(list) |-> export_row(list[k])]

\* _on_export_format_chosen: any response but csv and json is dropped; for
\* these two the format is kept and the file dialog opened
OnExportFormatChosen ==
    /\ \E chosen \in {"cancel", "csv", "json"} :
         _export_fmt' = IF chosen \in {"csv", "json"} THEN chosen ELSE _export_fmt
    /\ UNCHANGED <<inspectVars, registryVars, requests, triggers, idle, lastLoad,
                   world, _snaps, _current_filter, _current_language,
                   _all_languages, _heatmap_mode, _system_lang, _stack,
                   _status_page, _listbox, _heatmap_flow, exported>>

\* _on_export_save, the callback of the file dialog a chosen format opened:
\* the dialog was dismissed, or gave a path; nothing is written without rows
OnExportSave ==
    /\ _export_fmt # ""
    /\ \E result \in {"dismissed", "path"} :
         exported' = IF result = "dismissed" \/ export_data(_snaps) = <<>>
                     THEN exported
                     ELSE [fmt |-> _export_fmt, rows |-> export_data(_snaps)]
    /\ UNCHANGED <<inspectVars, registryVars, requests, triggers, idle, lastLoad,
                   world, _snaps, _current_filter, _current_language,
                   _all_languages, _heatmap_mode, _system_lang, _stack,
                   _status_page, _listbox, _heatmap_flow, _export_fmt>>

Init ==
    /\ InspectIdle
    /\ RegistryIdle
    /\ WindowInit({<<>>, fr})

Next ==
    \/ LoadSnaps
    \/ OnRefresh
    \/ OnFilterChanged
    \/ OnLanguageChanged
    \/ OnHeatmapToggled

Spec == Init /\ [][Next]_vars

\* the window of a user who exports and does not refresh by hand
NextExport ==
    \/ LoadSnaps
    \/ OnFilterChanged
    \/ OnLanguageChanged
    \/ OnHeatmapToggled
    \/ OnExportFormatChosen
    \/ OnExportSave

SpecExport == Init /\ [][NextExport]_vars

(***************************************************************************)
(* Claims                                                                  *)
(***************************************************************************)
Inspected == info.call = "get_snap_l10n_info"
Returned == Inspected /\ info.exc = ""
HasLocale == info.languages # <<>>
HasDesktop == ~info.desktop_l10n.isNone /\ info.desktop_l10n.items # <<>>

\* C1: every record get_snap_l10n_info returns has status "full" iff languages
\* is non-empty and desktop_l10n is neither absent nor empty, "none" iff
\* languages is empty and desktop_l10n is absent or empty, and "partial" in
\* every other case.
C1_StatusClassification ==
    Returned =>
        /\ info.status \in {"full", "partial", "none"}
        /\ info.status = "full" <=> (HasLocale /\ HasDesktop)
        /\ info.status = "none" <=> (~HasLocale /\ ~HasDesktop)

\* a package without locale languages whose desktop_l10n is empty, not absent
C1_Witness ==
    /\ Returned
    /\ ~HasLocale
    /\ info.desktop_l10n = ListValue(<<>>)
    /\ info.status = "none"

\* C2: get_snap_l10n_info never raises, whatever the filesystem holds.
C2_NeverRaises == Inspected => info.exc = ""

\* C3: when the registry call succeeds, the refresh ends with one record for
\* every package of the registry response.
C3_EveryPackageReported ==
    (lastLoad # "none" /\ reply.exc = "" /\ reply.kind = "list") =>
        /\ lastLoad = "ok"
        /\ Len(_snaps) = Len(reply.list)
        /\ \A k \in 1..Len(reply.list) :
             \E j \in 1..Len(_snaps) : _snaps[j].name = DictGet(reply.list[k].name, <<>>)

\* a name that is one path segment: not empty, without a separator, not ".."
ValidName(n) == n # <<>> /\ ~Contains(n, "/") /\ n # S_dotdot /\ n # S_dot

Within(path, root) == Len(path) >= Len(root) /\ SubSeq(path, 1, Len(root)) = root

\* C4: no filesystem access is made for an invalid package name, and for a
\* valid one every directory the probes touch lies under /snap/<name>/current.
C4_NoAccessOutsideMount ==
    Inspected =>
        LET name == DictGet(snap.name, <<>>) IN
        IF ValidName(name)
        THEN \A p \in info.accessed : Within(p, <<S_snap, name, S_current>>)
        ELSE info.accessed = {}

Decoded ==
    /\ reply # NoReply
    /\ response.connect = "ok"
    /\ response.read = "ok"
    /\ response.body = "json"

\* C5: an error-typed response makes the registry call fail, with the message
\* of result.message, or the default message when result or result.message is
\* missing; no package list is returned.
C5_ErrorTypedResponseFails ==
    (Decoded /\ response.type = "error") =>
        /\ reply.exc # ""
        /\ reply.kind = "none"
        /\ reply.list = <<>>
        /\ response.result.kind \in {"missing", "object"} =>
             /\ reply.exc = "RuntimeError"
             /\ reply.message =
                  IF response.result.kind = "object" /\ response.result.message.has
                  THEN response.result.message.v
                  ELSE DefaultMessage

\* {"type": "error", "result": {"message": "no such daemon"}}
C5_Witness ==
    /\ Decoded
    /\ response.type = "error"
    /\ response.result = Result("object", Some("no such daemon"), <<>>)
    /\ reply.exc = "RuntimeError"
    /\ reply.message = "no such daemon"

\* C6: on every exit path of _snapd_get, no connection the call opened
\* remains open.
C6_NoConnectionLeftOpen == openConns = 0

\* C7: a refresh issues one GET and queues none: every request is one queued
\* _load_snaps being run, the requests issued and the callbacks still queued
\* add up to the refreshes triggered, and a failed load leaves the error page
\* and no new callback.
C7_NoAutomaticRetry ==
    [][/\ requests' + idle' = triggers'
       /\ requests' # requests =>
            /\ requests' = requests + 1
            /\ idle' = idle - 1
            /\ triggers' = triggers
            /\ lastLoad' = "error" => _status_page'.title = "Error"]_vars

\* the only refresh failed, and nothing is queued
C7_Witness ==
    /\ lastLoad = "error"
    /\ reply.exc # ""
    /\ requests = 1
    /\ idle = 0
    /\ _status_page.title = "Error"

\* the languages with an LC_MESSAGES directory holding an entry in at least
\* one candidate directory
LanguagesOnDisk(f) ==
    {l \in LangsOf(f) :
        \E i \in 1..3 : /\ f.mount
                        /\ f.locale[i].state = "dir"
                        /\ f.locale[i].lc[l] = "entries"}

\* C8: the locale-tree probe returns exactly the directory names L for which
\* L/LC_MESSAGES is a directory with at least one entry in at least one of the
\* three candidate directories, each name once.
C8_LocaleLanguages ==
    (info.call = "_find_locale_files" /\ info.exc = "") =>
        /\ Range(info.languages) = LanguagesOnDisk(fs)
        /\ Len(info.languages) = Cardinality(LanguagesOnDisk(fs))

\* sv is found in two candidate directories and listed once; de_DE has an
\* empty LC_MESSAGES directory and is not listed
C8_Witness ==
    /\ info.call = "_find_locale_files"
    /\ fs.locale[1].state = "dir" /\ fs.locale[1].lc[sv] = "entries"
    /\ fs.locale[2].state = "dir" /\ fs.locale[2].lc[sv] = "entries"
    /\ fs.locale[1].lc[de_DE] = "empty"
    /\ info.languages = <<sv>>

\* C9: the desktop-entry probe returns the absent marker if and only if no
\* path ending in .desktop exists under the mount.
C9_AbsentIffNoDesktopFile ==
    info.call = "_check_desktop_l10n" => (info.desktop_l10n.isNone <=> fs.desktop = {})

\* the text between the brackets of a key as written, up to the first "." or
\* "@"; no code for a key without brackets
WrittenCode(key) ==
    IF Contains(key, "[") /\ Contains(key, "]")
    THEN {Split(Split(Split(Split(key, "[")[2], "]")[1], ".")[1], "@")[1]}
    ELSE {}

\* C10: the probe result is the union, over the desktop files read, of the
\* codes written between the brackets of their Desktop Entry keys (empty
\* codes left aside).
C10_DesktopLanguages ==
    (info.call = "_check_desktop_l10n" /\ ~info.desktop_l10n.isNone) =>
        Range(info.desktop_l10n.items) \ {<<>>}
          = UNION {UNION {WrittenCode(k) : k \in d.keys} :
                      d \in {x \in glob_desktop(fs) : x.kind = "ok"}} \ {<<>>}

\* C11: from a failed refresh until the next successful one, neither the list
\* view, nor the heatmap view, nor the "No snaps found" page is the visible
\* page, whatever filter, language or heatmap events follow.
C11_ErrorMessageStaysVisible ==
    lastLoad = "error" =>
        /\ _stack \notin {"list", "heatmap"}
        /\ ~(_stack = "loading" /\ _status_page.title = "No snaps found")

\* C12: after every successful refresh the stored records are in ascending
\* order of name, by code point: each record's name is <= its successor's.
C12_SortedByName ==
    \A k \in 1..(Len(_snaps) - 1) : StrLeq(_snaps[k].name, _snaps[k + 1].name)

\* the registry listed alpha before Zeta; Zeta is stored first ("Z" < "a")
C12_Witness ==
    /\ lastLoad = "ok"
    /\ Len(reply.list) = 2
    /\ reply.list[1].name = Some(N_alpha) /\ reply.list[2].name = Some(N_Zeta)
    /\ Len(_snaps) = 2
    /\ _snaps[1].name = N_Zeta /\ _snaps[2].name = N_alpha

\* C13: when the mount root does not exist, inspection returns a record with
\* no languages, the absent marker for desktop_l10n and status "none".
C13_MissingMountIsNoData ==
    (Inspected /\ ~fs.mount) =>
        /\ info.exc = ""
        /\ info.languages = <<>>
        /\ info.desktop_l10n = NoneValue
        /\ info.status = "none"

\* the package core, whose mount root is missing, has been inspected
C13_Witness ==
    /\ Returned
    /\ ~fs.mount
    /\ info.name = N_core
    /\ info.status = "none"

\* the publisher the precedence display-name, username, "" gives
ExpectedPublisher(p) ==
    IF p.kind = "dict" /\ p.display.has /\ p.display.v # <<>> THEN p.display.v
    ELSE IF p.kind = "dict" /\ p.username.has /\ p.username.v # <<>> THEN p.username.v
    ELSE <<>>

\* C15: the publisher of a record is the publisher object's display-name when
\* present and non-empty, else its username when present and non-empty, else
\* the empty string, also when the record has no publisher.
C15_PublisherPrecedence ==
    (Returned /\ snap.publisher.kind \in {"dict", "missing"}) =>
        info.publisher = ExpectedPublisher(snap.publisher)

\* an empty display-name falls back to the username
C15_Witness ==
    /\ Returned
    /\ snap.publisher.kind = "dict"
    /\ snap.publisher.display = Some(<<>>)
    /\ snap.publisher.username = Some(P_canonical)
    /\ info.publisher = P_canonical

\* C14: every exported row has exactly the keys name, status, languages and
\* desktop_l10n, with languages an integer count and desktop_l10n a boolean.
C14_ExportRowShape ==
    \A k \in 1..Len(exported.rows) :
        /\ DOMAIN exported.rows[k] = {"name", "status", "languages", "desktop_l10n"}
        /\ exported.rows[k].languages \in Nat
        /\ exported.rows[k].desktop_l10n.type = "bool"

\* C16: at most one _load_snaps is queued at any time.
C16_AtMostOneLoadQueued == idle <= 1

\* how many records of a list carry the name n
CountName(names, n) == Cardinality({k \in 1..Len(names) : names[k] = n})

\* C17: after a successful refresh the stored records are exactly one record
\* per package of that refresh's registry response, each built from the
\* filesystem read during that refresh.
C17_RebuiltFromScratch ==
    lastLoad = "ok" =>
        /\ Len(_snaps) = Len(reply.list)
        /\ \A n \in WindowNames :
             CountName([k \in 1..Len(_snaps) |-> _snaps[k].name], n)
               = CountName([k \in 1..Len(reply.list) |-> reply.list[k].name.v], n)
        /\ \A j \in 1..Len(_snaps) :
             _snaps[j] = InfoDict(get_snap_l10n_info(Package(_snaps[j].name),
                                                     world[_snaps[j].name]))

\* the second refresh succeeded and stored the one package of its response
C17_Witness ==
    /\ lastLoad = "ok"
    /\ requests = 2
    /\ Len(reply.list) = 1
    /\ Len(_snaps) = 1
    /\ _snaps[1].name = N_alpha
    /\ _snaps[1].status = "full"

\* the stored records that pass the status filter and the selected language
Selected(list, filter, language) ==
    SelectSeq(list, LAMBDA i :
        /\ filter = FILTER_NONE => i.status = "none"
        /\ filter = FILTER_PARTIAL => i.status = "partial"
        /\ language.has =>
             language.v \in Range(i.languages)
                            \cup (IF i.desktop_l10n.isNone THEN {}
                                  ELSE Range(i.desktop_l10n.items)))

\* a step that ends in a repopulation
Repopulated ==
    \/ _current_filter' # _current_filter
    \/ _current_language' # _current_language
    \/ _heatmap_mode' # _heatmap_mode /\ _snaps # <<>>
    \/ requests' # requests /\ lastLoad' = "ok"

\* C18: after every repopulation the list view and the heatmap view hold the
\* same records in the same order, those stored records that pass the status
\* filter and the selected language, and the "No snaps found" page is shown
\* exactly when there is none.
C18_ViewsShowSelection ==
    [][Repopulated =>
         LET sel == Selected(_snaps', _current_filter', _current_language') IN
         /\ _listbox' = sel
         /\ _heatmap_flow' = [k \in 1..Len(sel) |->
                                 [name |-> sel[k].name, status |-> sel[k].status]]
         /\ (_stack' = "loading" /\ _status_page'.title = "No snaps found")
              <=> sel = <<>>]_vars

\* of two stored records, the partial one that has fr is the one in both views
C18_Witness ==
    /\ _current_filter = FILTER_PARTIAL
    /\ _current_language = Some(fr)
    /\ Len(_snaps) = 2
    /\ Len(_listbox) = 1
    /\ Len(_heatmap_flow) = 1
    /\ _heatmap_flow[1].name = _listbox[1].name
    /\ _stack = "heatmap"

\* C19: a refresh that fails leaves the stored records as they were.
C19_FailedRefreshKeepsRecords ==
    [][(requests' # requests /\ lastLoad' = "error") => _snaps' = _snaps]_vars

\* the second refresh failed and the two records of the first are still stored
C19_Witness ==
    /\ lastLoad = "error"
    /\ requests = 2
    /\ Len(_snaps) = 2

\* C20: only a successful refresh changes the stored records; filter change,
\* language change, heatmap toggle, repopulation and export leave them as
\* they are.
C20_RecordsImmutable ==
    [][_snaps' # _snaps => (requests' = requests + 1 /\ lastLoad' = "ok")]_vars

\* after a filter change, a language change, a heatmap toggle and an export,
\* the stored records are those the refresh built
C20_Witness ==
    /\ lastLoad = "ok"
    /\ _current_filter = FILTER_NONE
    /\ _current_language = Some(fr)
    /\ _heatmap_mode
    /\ exported.fmt = "json"
    /\ Len(_snaps) = 2
    /\ _snaps = Loads[response][world].snaps

\* C21: every language code of a non-absent desktop_l10n is a non-empty
\* string, so that no empty code makes desktop_l10n count as non-empty.
C21_NoEmptyLanguageCode ==
    (Returned /\ ~info.desktop_l10n.isNone) =>
        \A k \in 1..Len(info.desktop_l10n.items) : info.desktop_l10n.items[k] # <<>>

====
